---- MODULE Spec2Model ----
(***************************************************************************)
(* A model of src/src/slack.js: the SlackBot class of the tarot game bot.  *)
(* One process (the bot) with: the asynchronous startup load of the root   *)
(* message, the introductory sequence, and any number of overlapping       *)
(* handleMessageEvent/drawCard handlers, each suspended at its awaits.     *)
(* The key-value store (kv.js) and the card catalog (transcript.js) are    *)
(* not part of the source; they are modelled from their contract.          *)
(***************************************************************************)
EXTENDS Integers, Sequences, FiniteSets, TLC

\* ------------------------------------------------------------- bounds
\* draw requests (events that reach drawCard) in one behaviour of DrawSpec
MaxDraws == 2
\* draw requests in one behaviour of Spec
MaxSessionDraws == 2
\* draw requests in one behaviour of SeqSpec
MaxSeqDraws == 4
\* handlers suspended at an await at the same time
MaxInFlight == 2

\* ---------------------------------------------------------- constants
\* kv.set(`card_draw:${username}`, true, 30 * 1000)
CooldownMs == 30000
\* setTimeout(resolve, 3000)
WaitMs == 3000
\* the clock advances in steps of one cooldown
TickMs == CooldownMs

\* ------------------------------------------------------------- values
Undefined == "undefined"
Null == "null"
ChannelId == "C_GAME"
Channels == {ChannelId, "C_OTHER"}
\* 'The Fool'
Narrator == <<"T", "h", "e", " ", "F", "o", "o", "l">>
\* event.user: the Slack member id of the player
Users == {<<"U", "1">>}
Actors == Users \cup {Narrator}
\* event.ts of the inbound messages that request a draw, in order of arrival;
\* the ts of other inbound messages is never read
EventTs == <<"2.01", "2.02", "2.03", "2.04", "2.05", "2.06">>
\* ts of the root message a previous run of the bot saved
PriorTs == "1.00"
\* result.ts of the root messages this behaviour posts, in order
RootTs == <<"1.01", "1.02", "1.03", "1.04">>
\* Object.keys(transcript('cards'))
CardKeys == <<"A", "B">>
\* event.text, as sequences of characters; NoText is a message without text
NoText == <<Undefined>>
\* what players write
Texts ==
  { <<" ", "d", "r", "a", "w", " ">>,
    <<"D", "r", "a", "w">>,
    <<"D", "R", "A", "W">>,
    <<"d", "r", "a", "w", "s">>,
    NoText }
\* what the bot's own messages say: the prompt of initialMessage, or anything else
BotTexts == { <<"D", "R", "A", "W">>, <<"o", "o", "o", "o", "h", "!">> }

Range(s) == {s[i] : i \in 1..Len(s)}
Max(a, b) == IF a >= b THEN a ELSE b
Min(a, b) == IF a <= b THEN a ELSE b

\* ---------------------------------------------------- pure functions
\* JS truthiness of a thread id: `if (threadTs)` / `if (!threadTs)`
Falsy(x) == x \in {Null, Undefined, ""}

IsSpace(c) == c \in {" ", "\t", "\n"}

RECURSIVE TrimStart(_)
TrimStart(s) ==
  IF s = <<>> THEN s
  ELSE IF IsSpace(Head(s)) THEN TrimStart(Tail(s)) ELSE s

RECURSIVE TrimEnd(_)
TrimEnd(s) ==
  IF s = <<>> THEN s
  ELSE IF IsSpace(s[Len(s)]) THEN TrimEnd(SubSeq(s, 1, Len(s) - 1)) ELSE s

\* String.prototype.trim
Trim(s) == TrimEnd(TrimStart(s))

UpperOf(c) ==
  CASE c = "d" -> "D"
    [] c = "r" -> "R"
    [] c = "a" -> "A"
    [] c = "w" -> "W"
    [] c = "s" -> "S"
    [] OTHER -> c

\* String.prototype.toUpperCase
ToUpperCase(s) == [i \in 1..Len(s) |-> UpperOf(s[i])]

\* a comparison without trim() (C13 must fail on it)
IsDrawCommand_NoTrim(text) == ToUpperCase(text) = <<"D", "R", "A", "W">>

\* event.text.trim().toUpperCase() === 'DRAW'
IsDrawCommand(text) == ToUpperCase(Trim(text)) = <<"D", "R", "A", "W">>

\* this.rootMessage?.messageTs ; a session is <<>> (null) or <<record>>
MessageTsOf(root) == IF root = <<>> THEN Undefined ELSE root[1].messageTs

\* event.thread_ts === this.rootMessage?.messageTs
InActiveThread(event, root) == event.thread_ts = MessageTsOf(root)

\* const username = event.bot_id ? 'The Fool' : event.user
ActorOf(event) == IF event.bot_id THEN Narrator ELSE event.user

\* username.startsWith('U') ? `<@${username}>` : username
UserMention(username) ==
  IF username # <<>> /\ username[1] = "U"
    THEN <<"<", "@">> \o username \o <<">">>
    ELSE username

\* JSON.stringify(this.rootMessage), as a sequence of tokens
Stringify(root) ==
  IF root = <<>> THEN <<"null">>
  ELSE <<"{", "channelId", root[1].channelId, "messageTs", root[1].messageTs, "}">>

\* JSON.parse(text) succeeds
ParseOk(text) ==
  \/ text = <<"null">>
  \/ /\ Len(text) = 6
     /\ text[1] = "{" /\ text[6] = "}"
     /\ {text[2], text[4]} = {"channelId", "messageTs"}

\* the field `name` of the object the text denotes
FieldOf(text, name) == IF text[2] = name THEN text[3] ELSE text[5]

\* a parse that reads each field from the other's place (C10 must fail on it)
Parse_Swapped(text) ==
  IF text = <<"null">> THEN <<>>
  ELSE <<[channelId |-> FieldOf(text, "messageTs"),
          messageTs |-> FieldOf(text, "channelId")]>>

\* JSON.parse(text)
Parse(text) ==
  IF text = <<"null">> THEN <<>>
  ELSE <<[channelId |-> FieldOf(text, "channelId"),
          messageTs |-> FieldOf(text, "messageTs")]>>

\* loadRootMessage: the value the promise resolves to, given the file
LoadResult(f) ==
  IF f.exists /\ ParseOk(f.text) THEN Parse(f.text) ELSE <<>>

\* a sendMessage without `if (!threadTs)` (C9 must fail on it)
SessionAfterSend_Always(threadTs, result, root) ==
  <<[channelId |-> result.channel, messageTs |-> result.ts]>>

\* sendMessage, after postMessage resolved: the new this.rootMessage
SessionAfterSend(threadTs, result, root) ==
  IF Falsy(threadTs)
    THEN <<[channelId |-> result.channel, messageTs |-> result.ts]>>
    ELSE root

\* userHand.includes(key)
Includes(userHand, key) == \E i \in 1..Len(userHand) : userHand[i] = key

\* cardKeys.filter(key => !userHand.includes(key))
AvailableCards(userHand) ==
  SelectSeq(CardKeys, LAMBDA key : ~Includes(userHand, key))

\* Math.floor(Math.random() * length): every index the call can return
RandomIndexes(length) == IF length = 0 THEN {0} ELSE 0..(length - 1)

\* array[i] with a JS (0-based) index; out of range reads undefined
At(array, i) == IF i + 1 <= Len(array) THEN array[i + 1] ELSE Undefined

\* a check `if (lastDraw)` that is never taken (C1 must fail on it)
CooldownActive_Never(lastDraw) == FALSE
\* if (lastDraw) : the request is rejected
CooldownActive(lastDraw) == lastDraw

\* kv.get(`card_draw:${username}`) : the entry exists until its ttl is over
CooldownGet(cd, username) == cd[username] > 0

\* a rejecting branch that writes the entry again (C7 must fail on it)
CooldownAfterReject_Extends(cd, username) == [cd EXCEPT ![username] = CooldownMs]
\* the cooldown entries after a rejected request: the code returns without writing
CooldownAfterReject(cd, username) == cd

\* a cooldown under one key for all actors (C20 must fail on it)
CooldownAfterAccept_All(cd, username) == [a \in DOMAIN cd |-> CooldownMs]

\* the cooldown entries after kv.set(`card_draw:${username}`, true, 30 * 1000)
CooldownAfterAccept(cd, username) == [cd EXCEPT ![username] = CooldownMs]

\* availableCards[Math.floor(Math.random() * availableCards.length)], for index i
RandomCard(userHand, i) == At(AvailableCards(userHand), i)

\* userHand.push(randomCard)
HandAfterPush(userHand, randomCard) == Append(userHand, randomCard)

\* messageParams without `if (threadTs)` (C19 must fail on it)
MessageParams_NoThread(mention, body, threadTs, username) ==
  [channel |-> ChannelId, mention |-> mention, body |-> body,
   thread_ts |-> Undefined, username |-> username]

\* messageParams of sendMessage(message, threadTs, username); the message is the
\* mention it starts with (if any) and the key of its body
MessageParams(mention, body, threadTs, username) ==
  [channel |-> ChannelId, mention |-> mention, body |-> body,
   thread_ts |-> IF Falsy(threadTs) THEN Undefined ELSE threadTs,
   username |-> username]

\* no postMessage in flight
NoPost == [channel |-> "", mention |-> <<>>, body |-> "", thread_ts |-> Undefined,
           username |-> <<>>]

\* what chat.postMessage resolves to
PostResult(ts) == [channel |-> ChannelId, ts |-> ts]

\* saveRootMessage: Bun.write('.rootmessage', JSON.stringify(this.rootMessage)) is
\* not awaited; w is the outcome of the write: "ok", or "rejected" (the promise
\* Bun.write returned rejects, outside the try block)
FileAfterSave(root, f, w) ==
  IF w = "ok" THEN [exists |-> TRUE, text |-> Stringify(root)] ELSE f

\* a handleMessageEvent without the channel check (C12 must fail on it)
Route_AnyChannel(event, root) ==
  IF InActiveThread(event, root)
    THEN IF event.text = NoText THEN "error"
         ELSE IF IsDrawCommand(event.text) THEN "draw" ELSE "noCommand"
    ELSE "notInThread"

\* the branch handleMessageEvent takes for an event
Route(event, root) ==
  IF event.channel # ChannelId THEN "otherChannel"
  ELSE IF InActiveThread(event, root)
    THEN IF event.text = NoText THEN "error"
         ELSE IF IsDrawCommand(event.text) THEN "draw" ELSE "noCommand"
    ELSE "notInThread"


\* ------------------------------------------------------------- state
VARIABLES
  rootMessage,  \* this.rootMessage: <<>> (null) or <<[channelId, messageTs]>>
  file,         \* the file .rootmessage: [exists, text]
  saved,        \* the session the last successful write of .rootmessage held
  loadPc,       \* the constructor's loadRootMessage().then(...): pending, loaded, done
  loadMsg,      \* what loadRootMessage read and will resolve to, not yet assigned
  introPc,      \* position of initialMessage
  introTs,      \* result.ts inside initialMessage
  introPost,    \* messageParams of the postMessage initialMessage awaits
  timer,        \* ms left of the setTimeout initialMessage awaits
  nextTs,       \* index in RootTs of the next root message's ts
  cooldown,     \* kv `card_draw:<actor>`: ms left of the entry's ttl, 0 = no entry
  hand,         \* kv `user_hand:<actor>`: the stored array, <<>> = no entry
  h,            \* the suspended handleMessageEvent/drawCard calls: a set of records
  nDraws,       \* draw requests started so far
  err,          \* the error the last step let out of the bot's catch blocks: "none"
                \* (no error, or one that handleMessageEvent caught and logged),
                \* "thrown" (rethrown to the caller of initialMessage),
                \* "unhandled:<call>" (a rejected promise that nothing awaits)
  winDraws,     \* per actor: cards added to the hand by requests that passed the
                \* cooldown check and wrote the cooldown entry in the current
                \* period of CooldownMs (since the last Tick)
  since,        \* per actor: ms since the last recorded draw (capped at CooldownMs);
                \* -1 if there is none, or a later request passed the cooldown check
  ev            \* the event handleMessageEvent was last called with, where the
                \* specification records it (RouteSpec); <<>> elsewhere

vars ==
  <<rootMessage, file, saved, loadPc, loadMsg, introPc, introTs, introPost, timer,
    nextTs, cooldown, hand, h, nDraws, err, winDraws, since, ev>>

kvVars == <<cooldown, hand, winDraws, since>>
sessionVars == <<rootMessage, file, saved>>
loadVars == <<loadPc, loadMsg>>
introVars == <<introPc, introTs, introPost, timer, nextTs>>

\* the locals of a call of handleMessageEvent that reached drawCard: pc is the
\* await it is suspended at, messageTs and thread_ts are event.ts and
\* event.thread_ts, post is the messageParams of the postMessage in flight;
\* inWin tells that it passed the cooldown check and wrote the cooldown entry
\* since the last Tick
Call(event) ==
  [pc |-> "awaitStart", messageTs |-> event.ts, thread_ts |-> event.thread_ts,
   username |-> ActorOf(event),
   post |-> MessageParams(UserMention(ActorOf(event)), "drawing.start", event.ts, <<>>),
   lastDraw |-> FALSE, userHand |-> <<>>, randomCard |-> Undefined, inWin |-> FALSE]

\* result.ts of a reply posted into a thread
ReplyTs == "9.99"

AbsentFile == [exists |-> FALSE, text |-> <<>>]

ThreadIds == {Undefined, PriorTs} \cup {RootTs[i] : i \in 1..(nextTs - 1)}

\* the inbound events; the next one has the ts EventTs[nDraws + 1]
Events ==
  [channel : Channels, thread_ts : ThreadIds, ts : {EventTs[nDraws + 1]},
   text : Texts, user : Users, bot_id : {FALSE}]
  \cup
  [channel : Channels, thread_ts : ThreadIds, ts : {EventTs[nDraws + 1]},
   text : BotTexts, user : {<<>>}, bot_id : {TRUE}]

\* the events players send
UserEvents == {event \in Events : ~event.bot_id}

Init ==
  /\ rootMessage = <<>>
  /\ saved \in {<<>>, <<[channelId |-> ChannelId, messageTs |-> PriorTs]>>}
  /\ file = IF saved = <<>> THEN AbsentFile
            ELSE [exists |-> TRUE, text |-> Stringify(saved)]
  /\ loadPc = "pending"
  /\ loadMsg = <<>>
  /\ introPc = "idle"
  /\ introTs = Undefined
  /\ introPost = NoPost
  /\ timer = 0
  /\ nextTs = 1
  /\ cooldown = [a \in Actors |-> 0]
  /\ hand = [a \in Actors |-> <<>>]
  /\ h = {}
  /\ nDraws = 0
  /\ err = "none"
  /\ winDraws = [a \in Actors |-> 0]
  /\ since = [a \in Actors |-> -1]
  /\ ev = <<>>

\* --------------------------------------------------- sendMessage
\* the part of sendMessage after `await this.client.chat.postMessage` resolved;
\* w is the outcome of the write saveRootMessage starts ("none": no write)
SendCompletes(threadTs, result, w) ==
  /\ rootMessage' = SessionAfterSend(threadTs, result, rootMessage)
  /\ IF Falsy(threadTs)
       THEN /\ w \in {"ok", "rejected"}
            /\ file' = FileAfterSave(rootMessage', file, w)
            /\ saved' = IF w = "ok" THEN rootMessage' ELSE saved
       ELSE /\ w = "none"
            /\ UNCHANGED <<file, saved>>

\* a rejected write of saveRootMessage is a rejected promise nothing awaits
WriteErr(w) == IF w = "rejected" THEN "unhandled:Bun.write" ELSE "none"

WriteOutcomes == {"ok", "rejected", "none"}

\* --------------------------------------------------- constructor
\* the runtime reads the file for loadRootMessage (file.exists(), file.text());
\* loadRootMessage is still suspended at its await
LoadRead ==
  /\ loadPc = "pending"
  /\ loadMsg' = LoadResult(file)
  /\ loadPc' = "loaded"
  /\ err' = "none"
  /\ UNCHANGED <<sessionVars, introVars, kvVars, h, nDraws, ev>>

\* loadRootMessage resumes with what was read, parses it and returns, and the
\* constructor's .then(msg => { this.rootMessage = msg }) runs
LoadApply ==
  /\ loadPc = "loaded"
  /\ rootMessage' = loadMsg
  /\ loadPc' = "done"
  /\ err' = "none"
  /\ UNCHANGED <<file, saved, loadMsg, introVars, kvVars, h, nDraws, ev>>

\* --------------------------------------------------- initialMessage
\* initialMessage is called: sendMessage('🃏') runs up to its await
IntroStart ==
  /\ introPc = "idle"
  /\ nextTs <= Len(RootTs)
  /\ introPc' = "awaitRoot"
  /\ introPost' = MessageParams(<<>>, "joker", Null, <<>>)
  /\ err' = "none"
  /\ UNCHANGED <<sessionVars, loadVars, introTs, timer, nextTs, kvVars, h, nDraws, ev>>

\* the root message's postMessage resolves or rejects
IntroRootDone(ok, w) ==
  /\ introPc = "awaitRoot"
  /\ IF ok
       THEN /\ SendCompletes(Null, PostResult(RootTs[nextTs]), w)
            /\ introTs' = RootTs[nextTs]
            /\ nextTs' = nextTs + 1
            /\ timer' = WaitMs
            /\ introPc' = "wait1"
            /\ err' = WriteErr(w)
       ELSE /\ w = "none"
            /\ introPc' = "failed"
            /\ err' = "thrown"
            /\ UNCHANGED <<sessionVars, introTs, nextTs, timer>>
  /\ introPost' = NoPost
  /\ UNCHANGED <<loadVars, kvVars, h, nDraws, ev>>

\* a 3 second wait of initialMessage is over: the next statement runs, which is
\* the next sendMessage (up to its await) or the return
IntroWaitOver ==
  /\ introPc \in {"wait1", "wait2", "wait3"}
  /\ timer = 0
  /\ introPc' = CASE introPc = "wait1" -> "await1"
                  [] introPc = "wait2" -> "await2"
                  [] OTHER -> "done"
  /\ introPost' = CASE introPc = "wait1" ->
                         MessageParams(<<>>, "followup", introTs, Narrator)
                    [] introPc = "wait2" ->
                         MessageParams(<<>>, "DRAW", introTs, Narrator)
                    [] OTHER -> NoPost
  /\ err' = "none"
  /\ UNCHANGED <<sessionVars, loadVars, introTs, timer, nextTs, kvVars, h, nDraws, ev>>

\* the postMessage of a follow-up (thread_ts: result.ts) resolves or rejects
IntroThreadDone(ok, w) ==
  /\ introPc \in {"await1", "await2"}
  /\ IF ok
       THEN /\ SendCompletes(introTs, PostResult(ReplyTs), w)
            /\ timer' = WaitMs
            /\ introPc' = IF introPc = "await1" THEN "wait2" ELSE "wait3"
            /\ err' = WriteErr(w)
       ELSE /\ w = "none"
            /\ introPc' = "failed"
            /\ err' = "thrown"
            /\ UNCHANGED <<sessionVars, timer>>
  /\ introPost' = NoPost
  /\ UNCHANGED <<loadVars, introTs, nextTs, kvVars, h, nDraws, ev>>

\* --------------------------------------------------- handleMessageEvent
\* an inbound event: handleMessageEvent runs up to the first await, which for a
\* draw request is the postMessage of the start notice inside drawCard (the
\* reaction is requested on the way and never awaited; its failure is swallowed).
\* A message without text makes event.text.trim() throw, which is caught.
HandleMessageEvent(event, maxDraws, maxInFlight) ==
  /\ IF Route(event, rootMessage) = "draw"
       THEN /\ nDraws < maxDraws
            /\ Cardinality(h) < maxInFlight
            /\ h' = h \cup {Call(event)}
            /\ nDraws' = nDraws + 1
       ELSE UNCHANGED <<h, nDraws>>
  /\ err' = "none"
  /\ UNCHANGED <<sessionVars, loadVars, introVars, kvVars>>

\* an inbound event, not recorded
Deliver(event, maxDraws, maxInFlight) ==
  /\ HandleMessageEvent(event, maxDraws, maxInFlight)
  /\ UNCHANGED ev

\* an inbound event, recorded
Received(event, maxDraws, maxInFlight) ==
  /\ HandleMessageEvent(event, maxDraws, maxInFlight)
  /\ ev' = <<event>>

\* --------------------------------------------------- drawCard
\* the call r goes on as r2, suspended at its next await
Goes(r, r2) == h' = (h \ {r}) \cup {r2}

\* the call r ends: drawCard returns, or throws to handleMessageEvent, which
\* catches and logs
Ends(r) == h' = h \ {r}

\* the start notice's postMessage resolves, and kv.get(`card_draw:${username}`)
\* is called: the store reads the entry (get: whether the call succeeds); or the
\* postMessage rejects
StartDone(r, ok, get) ==
  /\ r.pc = "awaitStart"
  /\ IF ok
       THEN /\ SendCompletes(r.messageTs, PostResult(ReplyTs), "none")
            /\ IF get
                 THEN Goes(r, [r EXCEPT !.pc = "gotCooldown", !.post = NoPost,
                                        !.thread_ts = Undefined,
                                        !.lastDraw = CooldownGet(cooldown, r.username)])
                 ELSE Ends(r)
       ELSE /\ get
            /\ Ends(r)
            /\ UNCHANGED sessionVars
  /\ err' = "none"
  /\ UNCHANGED <<loadVars, introVars, kvVars, nDraws, ev>>

\* drawCard resumes with lastDraw: the rejection (the 'too soon' sendMessage runs
\* up to its await), or the cooldown write (not awaited; ok: whether the store
\* takes it) followed by the call of kv.get for the hand
AfterCooldown(r, ok) ==
  LET u == r.username IN
  /\ r.pc = "gotCooldown"
  /\ IF CooldownActive(r.lastDraw)
       THEN /\ ok
            /\ cooldown' = CooldownAfterReject(cooldown, u)
            /\ Goes(r, [r EXCEPT !.pc = "awaitTooSoon", !.lastDraw = FALSE,
                                 !.post = MessageParams(UserMention(u),
                                            "drawing.too_soon", r.messageTs, <<>>)])
            /\ err' = "none"
            /\ UNCHANGED since
       ELSE /\ cooldown' = IF ok THEN CooldownAfterAccept(cooldown, u) ELSE cooldown
            /\ err' = IF ok THEN "none" ELSE "unhandled:kv.set"
            /\ Goes(r, [r EXCEPT !.pc = "getHand", !.inWin = ok])
            /\ since' = [since EXCEPT ![u] = -1]
  /\ UNCHANGED <<hand, winDraws, sessionVars, loadVars, introVars, nDraws, ev>>

\* the 'too soon' response's postMessage resolves or rejects; drawCard returns
TooSoonDone(r, ok) ==
  /\ r.pc = "awaitTooSoon"
  /\ IF ok
       THEN SendCompletes(r.messageTs, PostResult(ReplyTs), "none")
       ELSE UNCHANGED sessionVars
  /\ err' = "none"
  /\ Ends(r)
  /\ UNCHANGED <<loadVars, introVars, kvVars, nDraws, ev>>

\* the store answers kv.get(`user_hand:${username}`, true), or the call fails
HandRead(r, ok) ==
  /\ r.pc = "getHand"
  /\ IF ok
       THEN Goes(r, [r EXCEPT !.pc = "gotHand", !.userHand = hand[r.username]])
       ELSE Ends(r)
  /\ err' = "none"
  /\ UNCHANGED <<sessionVars, loadVars, introVars, kvVars, nDraws, ev>>

\* drawCard resumes with userHand: selects, pushes, writes the hand (not awaited;
\* ok: whether the store takes it), then reads chosenCard.name for the
\* announcement, which throws a TypeError when no card was selected; otherwise
\* the announcing sendMessage runs up to its await
AfterHand(r, i, ok) ==
  LET u == r.username
      randomCard == RandomCard(r.userHand, i)
      newHand == HandAfterPush(r.userHand, randomCard)
      recorded == ok /\ randomCard # Undefined
      grows == recorded /\ Len(newHand) > Len(hand[u])
  IN
  /\ r.pc = "gotHand"
  /\ i \in RandomIndexes(Len(AvailableCards(r.userHand)))
  /\ hand' = IF ok THEN [hand EXCEPT ![u] = newHand] ELSE hand
  /\ since' = IF recorded THEN [since EXCEPT ![u] = 0] ELSE since
  /\ winDraws' = IF grows /\ r.inWin
                   THEN [winDraws EXCEPT ![u] = winDraws[u] + 1] ELSE winDraws
  /\ err' = IF ok THEN "none" ELSE "unhandled:kv.set"
  /\ IF randomCard = Undefined
       THEN Ends(r)
       ELSE Goes(r, [r EXCEPT !.pc = "awaitAnnounce", !.userHand = <<>>,
                              !.randomCard = randomCard, !.inWin = FALSE,
                              !.post = MessageParams(UserMention(u), randomCard,
                                                     r.messageTs, <<>>)])
  /\ UNCHANGED <<cooldown, sessionVars, loadVars, introVars, nDraws, ev>>

\* the announcement's postMessage resolves or rejects; drawCard returns
AnnounceDone(r, ok) ==
  /\ r.pc = "awaitAnnounce"
  /\ IF ok
       THEN SendCompletes(r.messageTs, PostResult(ReplyTs), "none")
       ELSE UNCHANGED sessionVars
  /\ err' = "none"
  /\ Ends(r)
  /\ UNCHANGED <<loadVars, introVars, kvVars, nDraws, ev>>

\* --------------------------------------------------- environment
Decay(ms) == Max(0, ms - TickMs)

\* TickMs pass: ttls and timers run down
Tick ==
  /\ cooldown' = [a \in Actors |-> Decay(cooldown[a])]
  /\ timer' = Decay(timer)
  /\ winDraws' = [a \in Actors |-> 0]
  /\ h' = {[r EXCEPT !.inWin = FALSE] : r \in h}
  /\ since' = [a \in Actors |->
                 IF since[a] = -1 THEN -1 ELSE Min(CooldownMs, since[a] + TickMs)]
  /\ err' = "none"
  /\ UNCHANGED <<hand, sessionVars, loadVars, introPc, introTs, introPost, nextTs,
                 nDraws, ev>>

\* the steps of the handlers of draw requests
DrawStep ==
  \/ \E r \in h, ok \in BOOLEAN, get \in BOOLEAN : StartDone(r, ok, get)
  \/ \E r \in h, ok \in BOOLEAN : AfterCooldown(r, ok)
  \/ \E r \in h, ok \in BOOLEAN : TooSoonDone(r, ok)
  \/ \E r \in h, ok \in BOOLEAN : HandRead(r, ok)
  \/ \E r \in h, i \in 0..(Len(CardKeys) - 1), ok \in BOOLEAN : AfterHand(r, i, ok)
  \/ \E r \in h, ok \in BOOLEAN : AnnounceDone(r, ok)

\* the whole bot from its construction: startup load, introduction, the events
\* of players (handled one at a time), draws and time
Next ==
  \/ LoadRead
  \/ LoadApply
  \/ IntroStart
  \/ \E ok \in BOOLEAN, w \in WriteOutcomes : IntroRootDone(ok, w)
  \/ IntroWaitOver
  \/ \E ok \in BOOLEAN, w \in WriteOutcomes : IntroThreadDone(ok, w)
  \/ \E event \in UserEvents : Deliver(event, MaxSessionDraws, 1)
  \/ DrawStep
  \/ Tick

Spec == Init /\ [][Next]_vars

\* the bot once the constructor's load has set this.rootMessage to the session a
\* previous run saved (a state Spec reaches by LoadRead and LoadApply)
DrawInit ==
  /\ saved = <<[channelId |-> ChannelId, messageTs |-> PriorTs]>>
  /\ file = [exists |-> TRUE, text |-> Stringify(saved)]
  /\ rootMessage = LoadResult(file)
  /\ loadPc = "done"
  /\ loadMsg = rootMessage
  /\ introPc = "idle"
  /\ introTs = Undefined
  /\ introPost = NoPost
  /\ timer = 0
  /\ nextTs = 1
  /\ cooldown = [a \in Actors |-> 0]
  /\ hand = [a \in Actors |-> <<>>]
  /\ h = {}
  /\ nDraws = 0
  /\ err = "none"
  /\ winDraws = [a \in Actors |-> 0]
  /\ since = [a \in Actors |-> -1]
  /\ ev = <<>>

\* a run in which initialMessage is not called and the process is not restarted:
\* the game goes on in the thread a previous run opened
DrawNext ==
  \/ \E event \in Events : Deliver(event, MaxDraws, MaxInFlight)
  \/ DrawStep
  \/ Tick

DrawSpec == DrawInit /\ [][DrawNext]_vars

\* the same run with the events handled one at a time: an event arrives only
\* when no handler is suspended
SeqNext ==
  \/ \E event \in Events : Deliver(event, MaxSeqDraws, 1)
  \/ DrawStep
  \/ Tick

SeqSpec == DrawInit /\ [][SeqNext]_vars

\* ------------------------------------------------------------- claims
\* the call of drawCard for the event with timestamp ts, after the step
After(ts) == {r2 \in h' : r2.messageTs = ts}

\* the call r takes the step: it is gone, or at another position
Steps(r) == \A r2 \in After(r.messageTs) : r2.pc # r.pc

\* C1: a draw request of P processed while P's cooldown entry exists reads the
\* entry as present, then sends the 'too soon' response threaded under the
\* triggering message and nothing else, then terminates; P's hand and the
\* cooldown entries stay exactly as they were.
C1_TooSoonWhileCoolingDown ==
  [][\A r \in h :
       /\ (r.pc = "awaitStart" /\ cooldown[r.username] > 0) =>
            \A r2 \in After(r.messageTs) : r2.pc = "gotCooldown" => r2.lastDraw
       /\ (r.pc = "gotCooldown" /\ r.lastDraw /\ Steps(r)) =>
            /\ \E r2 \in After(r.messageTs) :
                 /\ r2.pc = "awaitTooSoon"
                 /\ r2.post = [channel |-> ChannelId,
                               mention |-> UserMention(r.username),
                               body |-> "drawing.too_soon",
                               thread_ts |-> r.messageTs, username |-> <<>>]
            /\ hand' = hand
       /\ (r.pc = "awaitTooSoon" /\ Steps(r)) =>
            /\ After(r.messageTs) = {}
            /\ hand' = hand
    ]_vars

\* C1's case: a request of a player who holds a card is being rejected
C1_Witness ==
  \E r \in h : r.pc = "awaitTooSoon" /\ hand[r.username] # <<>>
                 /\ cooldown[r.username] > 0

\* C2: in one cooldown window at most one request of a player passes the cooldown
\* check and records a card in the player's hand.
C2_OneDrawPerWindow == \A a \in Actors : winDraws[a] <= 1

\* C3: a draw that selects a card selects one that is not in the player's
\* persisted hand at the moment the draw records it.
C3_SelectedCardIsNew ==
  [][\A r \in h : r.pc = "gotHand" =>
       \A r2 \in After(r.messageTs) :
         r2.pc = "awaitAnnounce" => ~Includes(hand[r.username], r2.randomCard)
    ]_vars

\* C4: no persisted hand holds a value more than once.
C4_NoValueTwice ==
  \A a \in Actors : \A i, j \in 1..Len(hand[a]) : hand[a][i] = hand[a][j] => i = j

\* C5: an event starts a draw only while a session is present and the event's
\* thread root timestamp is the session's message timestamp.
C5_DrawOnlyInActiveThread ==
  [][\A r2 \in h' :
       (\A r \in h : r.messageTs # r2.messageTs) =>
         /\ rootMessage # <<>>
         /\ r2.thread_ts = rootMessage[1].messageTs
    ]_vars

\* C6: nothing but catalog cards is ever appended to a hand.
C6_OnlyCatalogCards == \A a \in Actors : Range(hand[a]) \subseteq Range(CardKeys)

\* C7: once 30 seconds have passed since P's last recorded draw, P's cooldown
\* entry is gone, the next request of P reads it as absent, passes the check and,
\* when it has read a hand that leaves a card available, selects one of the
\* available cards, writes the hand with it appended and announces it; a rejected
\* request never writes the cooldown entry.
C7_DrawAfterCooldown ==
  [][/\ \A a \in Actors : since[a] = CooldownMs => cooldown[a] = 0
     /\ \A r \in h :
          /\ (r.pc = "awaitStart" /\ since[r.username] = CooldownMs) =>
               \A r2 \in After(r.messageTs) : r2.pc = "gotCooldown" => ~r2.lastDraw
          /\ (r.pc = "gotCooldown" /\ ~r.lastDraw /\ Steps(r)) =>
               \E r2 \in After(r.messageTs) : r2.pc = "getHand"
          /\ (r.pc = "gotHand" /\ AvailableCards(r.userHand) # <<>> /\ Steps(r)) =>
               \E r2 \in After(r.messageTs) :
                 /\ r2.pc = "awaitAnnounce"
                 /\ Includes(AvailableCards(r.userHand), r2.randomCard)
                 /\ r2.post.body = r2.randomCard
                 /\ \/ hand'[r.username] = Append(r.userHand, r2.randomCard)
                    \/ err' = "unhandled:kv.set"
          /\ (r.pc = "gotCooldown" /\ r.lastDraw /\ Steps(r)) => cooldown' = cooldown
    ]_vars

\* C7's case: 30 seconds after the recorded draw of a player, a request of that
\* player has read the cooldown entry as absent
C7_Witness ==
  \E r \in h : /\ r.pc = "gotCooldown" /\ ~r.lastDraw
               /\ since[r.username] = CooldownMs
               /\ hand[r.username] # <<>>

\* C8: no failure during a draw leaves the handler of the event: nothing is
\* thrown out of it and no promise is left rejected without a handler.
C8_NoFailureEscapes == err = "none"

\* a step in which a send with a thread id is over
ThreadedSendOver ==
  \/ introPc \in {"await1", "await2"} /\ introPc' # introPc
  \/ \E r \in h : r.post.thread_ts # Undefined /\ Steps(r)

\* C9 (as amended): when a send without thread id completes, this.rootMessage is
\* {channel, ts} of the message just posted, and the file holds that same value
\* if the write succeeds (it is unchanged if the write is rejected); a send with
\* a thread id changes neither this.rootMessage nor the file.
C9_SessionFollowsRootSend ==
  [][/\ (introPc = "awaitRoot" /\ introPc' = "wait1") =>
          /\ rootMessage' = <<[channelId |-> ChannelId, messageTs |-> introTs']>>
          /\ introTs' = RootTs[nextTs]
          /\ \/ file' = [exists |-> TRUE, text |-> Stringify(rootMessage')]
             \/ err' = "unhandled:Bun.write" /\ file' = file
     /\ ThreadedSendOver => rootMessage' = rootMessage /\ file' = file
    ]_vars

\* C9's case: the root message was posted, and the session was set and persisted
C9_Witness ==
  /\ introPc = "wait1"
  /\ rootMessage = <<[channelId |-> ChannelId, messageTs |-> introTs]>>
  /\ file = [exists |-> TRUE, text |-> Stringify(rootMessage)]
  /\ loadPc = "done"

\* C9 as stated: whenever a send without thread id completes, the file holds the
\* session just set.
C9_RootSendAlwaysPersists ==
  [][(introPc = "awaitRoot" /\ introPc' = "wait1") =>
        file' = [exists |-> TRUE, text |-> Stringify(rootMessage')]
    ]_vars

\* C10: the file a save wrote loads to the session that was saved, with the same
\* channel id and message timestamp; the constructor assigns what the load
\* yielded, and then every event in the configured channel whose thread root
\* timestamp is the loaded message timestamp passes the thread check.
C10_SaveThenLoad ==
  [][/\ file'.exists => LoadResult(file') = saved'
     /\ (loadPc = "pending" /\ loadPc' = "loaded") => loadMsg' = saved
     /\ (loadPc = "loaded" /\ loadPc' = "done") =>
          /\ rootMessage' = loadMsg
          /\ \A event \in Events :
               (/\ rootMessage' # <<>>
                /\ event.channel = ChannelId
                /\ event.thread_ts = rootMessage'[1].messageTs)
               => Route(event, rootMessage') \in {"draw", "noCommand", "error"}
    ]_vars

\* C10's case: the session a root send of this run saved has been loaded from
\* the file and assigned
C10_Witness ==
  /\ loadPc = "done"
  /\ nextTs > 1
  /\ loadMsg = <<[channelId |-> ChannelId, messageTs |-> RootTs[1]]>>
  /\ rootMessage = loadMsg

\* C11: a failed write of the session record does not leave the bot's handlers:
\* no step leaves the promise of Bun.write rejected with nothing awaiting it.
C11_SaveFailureContained == err # "unhandled:Bun.write"

\* ------------------------------------------------------------- the routing of events
\* a player whose id does not start with U (ids of an Enterprise Grid start with W)
AllUsers == Users \cup {<<"W", "2">>}

\* the root of some other thread of the channel
OtherTs == "0.99"

AllThreadIds == ThreadIds \cup {OtherTs}

\* what players write, with more spellings
AllTexts ==
  Texts \cup { <<"\t", "d", "R", "a", "W", "\n">>, <<"d", " ", "r", "a", "w">> }

\* every kind of inbound event
AllEvents ==
  [channel : Channels, thread_ts : AllThreadIds, ts : {EventTs[nDraws + 1]},
   text : AllTexts, user : AllUsers, bot_id : {FALSE}]
  \cup
  [channel : Channels, thread_ts : AllThreadIds, ts : {EventTs[nDraws + 1]},
   text : BotTexts, user : {<<>>}, bot_id : {TRUE}]

\* the bot with or without a session from a previous run, the load assigned
RouteInit ==
  /\ saved \in {<<>>, <<[channelId |-> ChannelId, messageTs |-> PriorTs]>>}
  /\ file = IF saved = <<>> THEN AbsentFile
            ELSE [exists |-> TRUE, text |-> Stringify(saved)]
  /\ rootMessage = LoadResult(file)
  /\ loadPc = "done"
  /\ loadMsg = rootMessage
  /\ introPc = "idle"
  /\ introTs = Undefined
  /\ introPost = NoPost
  /\ timer = 0
  /\ nextTs = 1
  /\ cooldown = [a \in Actors |-> 0]
  /\ hand = [a \in Actors |-> <<>>]
  /\ h = {}
  /\ nDraws = 0
  /\ err = "none"
  /\ winDraws = [a \in Actors |-> 0]
  /\ since = [a \in Actors |-> -1]
  /\ ev = <<>>

\* handleMessageEvent up to its first await, applied to every kind of event
RouteNext == \E event \in AllEvents : Received(event, MaxDraws, MaxInFlight)

RouteSpec == RouteInit /\ [][RouteNext]_vars

\* the step is a call of handleMessageEvent that leaves everything as it was: no
\* call of drawCard (so no reaction, no message, no store access), no other change
Ignored ==
  /\ h' = h
  /\ nDraws' = nDraws
  /\ UNCHANGED <<kvVars, sessionVars, loadVars, introVars>>

\* the step starts drawCard for the event: one new call, with the event's ts
Triggered(event) ==
  /\ \A r \in h : r.messageTs # event.ts
  /\ h' = h \cup {Call(event)}

\* C12: an event of another channel than the configured one is ignored, whatever
\* its thread root timestamp, text, actor and the session.
C12_OtherChannelIgnored ==
  [][(ev' # <<>> /\ ev'[1].channel # ChannelId) => Ignored]_vars

\* C12's case: an event of another channel that is a draw command in the active
\* thread in every other respect was handled, and no draw is in progress
C12_Witness ==
  /\ ev # <<>> /\ rootMessage # <<>>
  /\ ev[1].channel # ChannelId
  /\ ev[1].thread_ts = rootMessage[1].messageTs
  /\ ev[1].text = <<"D", "R", "A", "W">>
  /\ h = {}

\* the texts that are the command once trimmed and uppercased
Triggers ==
  { <<" ", "d", "r", "a", "w", " ">>, <<"D", "r", "a", "w">>, <<"D", "R", "A", "W">>,
    <<"\t", "d", "R", "a", "W", "\n">> }

\* C13: an event inside the active thread starts a draw exactly when its text,
\* trimmed and uppercased, is DRAW: " draw ", "Draw" and "DRAW" start one, "draws"
\* and any other text start none and change nothing.
C13_DrawCommand ==
  [][(/\ ev' # <<>> /\ rootMessage # <<>>
      /\ ev'[1].channel = ChannelId
      /\ ev'[1].thread_ts = rootMessage[1].messageTs)
     => IF ev'[1].text \in Triggers THEN Triggered(ev'[1]) ELSE Ignored
    ]_vars

\* C13's case: " draw " in the active thread started a draw, which is in progress
C13_Witness ==
  /\ ev # <<>> /\ rootMessage # <<>>
  /\ ev[1].text = <<" ", "d", "r", "a", "w", " ">>
  /\ \E r \in h : r.messageTs = ev[1].ts /\ r.thread_ts = rootMessage[1].messageTs

\* C14: the actor of a draw request is the narrator label for a bot's event and
\* event.user otherwise, and the text mentions the narrator by its label and every
\* player by a mention marker around the player's id (stated for the draws that
\* start while a session is present).
C14_ActorAndMention ==
  \A r \in h : rootMessage # <<>> =>
    /\ (ev # <<>> /\ ev[1].ts = r.messageTs) =>
         r.username = IF ev[1].bot_id THEN Narrator ELSE ev[1].user
    /\ r.pc = "awaitStart" =>
         r.post.mention = IF r.username = Narrator THEN Narrator
                          ELSE <<"<", "@">> \o r.username \o <<">">>

\* C15: initialMessage posts the root message, then the narrated follow-up, then
\* the "DRAW" prompt, each follow-up only after the previous send completed and its
\* wait is over, both with the root message's ts as thread id; after a failed send
\* it posts nothing more; and when it returns the session is the root message.
C15_IntroSequence ==
  [][/\ (introPost' # introPost /\ introPost' # NoPost) =>
          \/ /\ introPc = "idle"
             /\ introPost' = [channel |-> ChannelId, mention |-> <<>>, body |-> "joker",
                              thread_ts |-> Undefined, username |-> <<>>]
          \/ /\ introPc = "wait1" /\ timer = 0 /\ introTs # Undefined
             /\ introPost' = [channel |-> ChannelId, mention |-> <<>>,
                              body |-> "followup", thread_ts |-> introTs,
                              username |-> Narrator]
          \/ /\ introPc = "wait2" /\ timer = 0 /\ introTs # Undefined
             /\ introPost' = [channel |-> ChannelId, mention |-> <<>>,
                              body |-> "DRAW", thread_ts |-> introTs,
                              username |-> Narrator]
     /\ introPc = "failed" => introPc' = "failed" /\ introPost' = NoPost
     /\ (introPc = "wait3" /\ introPc' = "done") =>
          rootMessage' = <<[channelId |-> ChannelId, messageTs |-> introTs]>>
    ]_vars

\* C16: once a root send has completed, this.rootMessage is that message's
\* identity (Spec has one root send, whose ts is introTs): the startup load never
\* replaces it.
C16_LoadKeepsRootSend ==
  introTs # Undefined =>
    rootMessage = <<[channelId |-> ChannelId, messageTs |-> introTs]>>

\* C17: an actor has a cooldown entry only while a draw of the actor is still
\* under way past the cooldown check, or after a draw of the actor recorded a
\* card in the current period: a request that failed leaves none behind.
C17_CooldownOnlyAfterSuccess ==
  \A a \in Actors :
    cooldown[a] > 0 =>
      \/ since[a] = 0
      \/ \E r \in h : r.username = a /\ r.pc \in {"getHand", "gotHand", "awaitAnnounce"}

\* s is a prefix of t
IsPrefix(s, t) == Len(s) <= Len(t) /\ SubSeq(t, 1, Len(s)) = s

\* C18: every hand is append-only: in every step the persisted hand before the
\* step is a prefix of the persisted hand after it.
C18_HandAppendOnly ==
  [][\A a \in Actors : IsPrefix(hand[a], hand'[a])]_vars

\* C19: handling an event never changes the session: every message of drawCard
\* carries the triggering event's ts as thread id, and no step of a handler (its
\* start included) changes this.rootMessage or the file.
C19_EventsKeepSession ==
  [][/\ \A r \in h : r.post # NoPost => r.post.thread_ts = r.messageTs
     /\ ((\E r \in h : Steps(r)) \/ nDraws' # nDraws) => UNCHANGED sessionVars
    ]_vars

\* C19's case: with a session present and persisted, two requests were handled to
\* the end, one that recorded a card and one that did not
C19_Witness ==
  /\ rootMessage # <<>> /\ saved = rootMessage
  /\ nDraws = 2 /\ h = {}
  /\ \E a \in Actors : Len(hand[a]) = 1 /\ cooldown[a] > 0

\* C20: a step of a draw of actor P leaves the cooldown entry and the hand of
\* every other actor as they were, and what a request of Q reads as its cooldown
\* is Q's own entry.
C20_ActorsIndependent ==
  [][\A r \in h :
       /\ Steps(r) =>
            \A q \in Actors \ {r.username} :
              cooldown'[q] = cooldown[q] /\ hand'[q] = hand[q]
       /\ r.pc = "awaitStart" =>
            \A r2 \in After(r.messageTs) :
              r2.pc = "gotCooldown" => r2.lastDraw = (cooldown[r.username] > 0)
    ]_vars

\* C20's case: while one actor has a cooldown entry and a card, a request of
\* another actor, who has neither, has passed the cooldown read as absent
C20_Witness ==
  \E r \in h : \E p \in Actors \ {r.username} :
    /\ r.pc = "gotCooldown" /\ ~r.lastDraw
    /\ cooldown[p] > 0 /\ hand[p] # <<>>
    /\ hand[r.username] = <<>>
====
